---- MODULE Spec2Model ----
(***************************************************************************)
(* State-machine model of LED/LED.py: the effects of class LED over the    *)
(* pixel buffer of an rpi_ws281x PixelStrip.                               *)
(*                                                                         *)
(* A pixel is the tuple <<red, green, blue, white>> handed to RGBW(...).   *)
(* One step of the machine is one pixel write, one strip.show(), one call  *)
(* or one return; KeyboardInterrupt can be delivered between any two       *)
(* steps.  time.sleep() changes no state and is part of the step that      *)
(* follows strip.show().                                                   *)
(***************************************************************************)
EXTENDS Integers, Sequences, FiniteSets, TLC

\* ------------------------------------------------------------- configuration

\* LED.__init__: brightness default
brightness == 120

\* ledCount of the strip (strip.numPixels())
NumPixels == 2

\* longest colorOrder / colors list the caller passes
MaxColors == 2

\* largest repeat the caller passes to chase
MaxRepeat == 2

Pixels == 0 .. (NumPixels - 1)

\* ------------------------------------------------------------- class Color

Color == {"RED", "GREEN", "BLUE", "YELLOW", "PURPLE", "TURQUOISE", "ORANGE", "WHITE"}

value(c) ==
  CASE c = "RED"       -> <<255, 0, 0>>
    [] c = "GREEN"     -> <<0, 255, 0>>
    [] c = "BLUE"      -> <<0, 0, 255>>
    [] c = "YELLOW"    -> <<255, 255, 0>>
    [] c = "PURPLE"    -> <<160, 32, 240>>
    [] c = "TURQUOISE" -> <<48, 213, 200>>
    [] c = "ORANGE"    -> <<255, 120, 0>>
    [] c = "WHITE"     -> <<255, 255, 255>>

\* ------------------------------------------------------------- pure helpers

Pow2_8  == 256
Pow2_16 == 65536
Pow2_24 == 16777216

\* RGBW(red, green, blue, white) of rpi_ws281x as stored by setPixelColor
RGBW(red, green, blue, white) == <<red, green, blue, white>>

\* strip.getPixelColor(n): the packed integer (white << 24) | (r << 16) | (g << 8) | b
PackedColor(p) == p[4] * Pow2_24 + p[1] * Pow2_16 + p[2] * Pow2_8 + p[3]

\* getRgbFromColor with the mask of the green byte left out
getRgbFromColorNoMask(color) ==
  << (color \div Pow2_16) % Pow2_8, color \div Pow2_8, color % Pow2_8 >>

\* getRgbFromColor: (color >> 16) & 0xFF, (color >> 8) & 0xFF, color & 0xFF
getRgbFromColor(color) ==
  << (color \div Pow2_16) % Pow2_8, (color \div Pow2_8) % Pow2_8, color % Pow2_8 >>

\* the checking chain without its test for negative values
ClampUpperOnly(x) == IF x > 255 THEN 255 ELSE x

\* the "# Checking" chain of setLedColor for one channel
Clamp(x) == IF x < 0 THEN 0 ELSE IF x > 255 THEN 255 ELSE x

\* setLedColor storing its color in every pixel
setLedColorAll(b, n, red, green, blue, white) ==
  [m \in DOMAIN b |-> RGBW(Clamp(red), Clamp(green), Clamp(blue), white)]

\* setLedColor(n, red, green, blue, white): red, green and blue go through the
\* checking chain, white is handed to RGBW as given
setLedColor(b, n, red, green, blue, white) ==
  [b EXCEPT ![n] = RGBW(Clamp(red), Clamp(green), Clamp(blue), white)]

\* The pairs (c, i) for which the double product c * (i / 120) is just below the
\* integer c*i/120, so that int() truncates one lower than the exact quotient.
FloatShort ==
  { <<75, 88>>, <<90, 84>>, <<150, 44>>, <<150, 88>>, <<165, 88>>,
    <<170, 84>>, <<180, 42>>, <<180, 84>>, <<200, 69>>, <<216, 65>> }

\* turnOn: int(c * (i / self.brightness))
Scale(c, i) ==
  IF <<c, i>> \in FloatShort THEN ((c * i) \div brightness) - 1
  ELSE (c * i) \div brightness

\* the interpolation without its start value
LerpNoStart(c, target, i) ==
  IF i * (target - c) >= 0 THEN (i * (target - c)) \div brightness
  ELSE -((-(i * (target - c))) \div brightness)

\* transition: int(c + (i * (target - c) / self.brightness)); int() truncates
\* toward zero
Trunc(num, den) == IF num >= 0 THEN num \div den ELSE -((-num) \div den)

Lerp(c, target, i) == Trunc(c * brightness + i * (target - c), brightness)

\* chase: the rotation loop over order (lines 328-332)
RECURSIVE ShiftDown(_, _)
ShiftDown(o, k) ==
  IF k <= 1 THEN o ELSE ShiftDown([o EXCEPT ![k] = o[k - 1]], k - 1)

\* the rotation loop without the final order[0] = last_color
RotateNoWrap(o) == IF Len(o) > 1 THEN ShiftDown(o, Len(o)) ELSE o

Rotate(o) ==
  IF Len(o) > 1
  THEN LET last_color == o[Len(o)]
       IN  [ShiftDown(o, Len(o)) EXCEPT ![1] = last_color]
  ELSE o

\* chase: order = each color.value of colorOrder, repeat times
RECURSIVE Expand(_, _)
Expand(colorOrder, rep) ==
  IF colorOrder = <<>> THEN <<>>
  ELSE [k \in 1 .. rep |-> value(Head(colorOrder))] \o Expand(Tail(colorOrder), rep)

\* colorLoop: liste = [c.value for c in colorOrder]
Values(colorOrder) == [k \in 1 .. Len(colorOrder) |-> value(colorOrder[k])]

\* ------------------------------------------------------------- inputs

\* arguments the caller passes
ShineSpeeds  == {5, 23, 120}
FadeSpeeds   == {7, 100}
EffectSpeeds == {3, 7, 50}

\* speeds passed to the endless effects
LoopShine  == {50}
LoopFade   == {60, 100}
LoopEffect == {50}

\* colors the endless effects are called with
LoopColors == {"RED", "GREEN", "TURQUOISE"}

\* RGB tuples transition is called with: the catalog values and black
Tuples == {value(c) : c \in Color} \cup {<<0, 0, 0>>}

\* (red, green, blue, white) arguments of direct setLedColor calls
SetArgs == {<<0, 0, 0, 0>>, <<255, 0, 0, 0>>, <<10, 20, 30, 1>>}

RECURSIVE SeqsUpTo(_, _)
SeqsUpTo(S, n) ==
  IF n = 0 THEN {<<>>}
  ELSE LET shorter == SeqsUpTo(S, n - 1)
       IN  shorter \cup {Append(q, x) : q \in shorter, x \in S}

\* non-empty colorOrder lists
ColorOrders == SeqsUpTo(LoopColors, MaxColors) \ {<<>>}

\* ------------------------------------------------------------- state

VARIABLES
  buf,        \* the strip's pixel buffer: pixel index -> <<r, g, b, w>>
  shown,      \* what the last strip.show() flushed to the hardware
  stack,      \* active calls, outermost first: [fn, pc]
  outcome,    \* how the last top-level call ended
  cancelled,  \* KeyboardInterrupt was delivered to the running top-level call
  op,         \* the running (or last) top-level call
  last,       \* the top-level call before op
  shineSpeed, fadeSpeed, effectSpeed,   \* arguments of the running calls
  color, startColor, endColor,
  colorOrder,  \* list of Color members (colorLoop, flow, chase)
  colors,      \* list of RGB tuples (transitionEffect; colorLoop's liste)
  repeat,
  i, j,       \* loop variables of the running loop
  t,          \* color index of transitionEffect and flow
  rgb,        \* turnOff's r, g, b
  packed,     \* turnOff's color (the value read back from pixel 0)
  order       \* chase's order

args   == <<shineSpeed, fadeSpeed, effectSpeed, color, startColor, endColor, colorOrder, colors, repeat>>
locals == <<i, j, t, rgb, packed, order>>
ctl    == <<stack, outcome, cancelled, op, last>>
vars   == <<buf, shown, ctl, args, locals>>

Black == <<0, 0, 0, 0>>
AllOff(b) == \A n \in Pixels : b[n] = Black

NoArgs ==
  /\ shineSpeed' = 0 /\ fadeSpeed' = 0 /\ effectSpeed' = 0
  /\ color' = "" /\ startColor' = <<>> /\ endColor' = <<>>
  /\ colorOrder' = <<>> /\ colors' = <<>> /\ repeat' = 0

NoLocals ==
  /\ i' = 0 /\ j' = 0 /\ t' = 0 /\ rgb' = <<>> /\ packed' = 0 /\ order' = <<>>

\* PixelStrip(...) and strip.begin(): a zeroed buffer, nothing running
Init ==
  /\ buf = [n \in Pixels |-> Black]
  /\ shown = [n \in Pixels |-> Black]
  /\ stack = <<>> /\ outcome = "none" /\ cancelled = FALSE
  /\ op = "none" /\ last = "none"
  /\ shineSpeed = 0 /\ fadeSpeed = 0 /\ effectSpeed = 0
  /\ color = "" /\ startColor = <<>> /\ endColor = <<>>
  /\ colorOrder = <<>> /\ colors = <<>> /\ repeat = 0
  /\ i = 0 /\ j = 0 /\ t = 0 /\ rgb = <<>> /\ packed = 0 /\ order = <<>>

Depth == Len(stack)
Top == stack[Depth]
At(f, p) == Depth > 0 /\ Top.fn = f /\ Top.pc = p
Frame(f, p) == [fn |-> f, pc |-> p]
Goto(p) == [stack EXCEPT ![Depth].pc = p]
\* the caller continues at p once the callee f, entered at q, has returned
CallFrom(p, f, q) == Append(Goto(p), Frame(f, q))

\* the caller may call: nothing is running and no exception has ended the program
Idle == stack = <<>> /\ outcome \in {"none", "returned"}

\* The caller's programs: pixels are set up with setLedColor, then one method is
\* called; a turnOn that returned may be followed by turnOff.
Methods ==
  {"turnOn", "transition", "transitionEffect", "turnOff", "colorLoop", "breathe",
   "flow", "chase", "setLedColor"}
Sequel ==
  ({"none", "setLedColor"} \X Methods) \cup {<<"turnOn", "turnOff">>}

Begin(name) ==
  /\ Idle /\ <<op, name>> \in Sequel
  /\ op' = name /\ last' = op
  /\ cancelled' = FALSE

\* range(0, self.brightness, speed): the first value, if any
FirstPc == IF 0 < brightness THEN "frame" ELSE "done"
NextPc(speed) == IF i + speed < brightness THEN "frame" ELSE "done"

\* ------------------------------------------------------------- turnOn

EnterTurnOn == i' = 0 /\ j' = 0 /\ UNCHANGED <<t, rgb, packed, order>>

CallTurnOn ==
  \E c \in Color, s \in ShineSpeeds :
    /\ Begin("turnOn")
    /\ outcome' = "none"
    /\ stack' = <<Frame("turnOn", FirstPc)>>
    /\ color' = c /\ shineSpeed' = s
    /\ EnterTurnOn
    /\ UNCHANGED <<buf, shown, fadeSpeed, effectSpeed, startColor, endColor,
                   colorOrder, colors, repeat>>

\* for j in range(numPixels()): setLedColor(j, int(r * (i / brightness)), ...)
TurnOnWrite ==
  /\ At("turnOn", "frame") /\ j < NumPixels
  /\ buf' = setLedColor(buf, j, Scale(value(color)[1], i), Scale(value(color)[2], i),
                        Scale(value(color)[3], i), 0)
  /\ j' = j + 1
  /\ UNCHANGED <<shown, ctl, args, i, t, rgb, packed, order>>

\* strip.show(); time.sleep(); next i of range(0, brightness, shineSpeed)
TurnOnShow ==
  /\ At("turnOn", "frame") /\ j = NumPixels
  /\ shown' = buf
  /\ stack' = Goto(NextPc(shineSpeed))
  /\ i' = IF i + shineSpeed < brightness THEN i + shineSpeed ELSE i
  /\ j' = 0
  /\ UNCHANGED <<buf, outcome, cancelled, op, last, args, t, rgb, packed, order>>

\* ------------------------------------------------------------- transition

EnterTransition == i' = 0 /\ j' = 0 /\ UNCHANGED <<t, rgb, packed, order>>

CallTransition ==
  \E a \in Tuples, b \in Tuples, s \in EffectSpeeds :
    /\ Begin("transition")
    /\ outcome' = "none"
    /\ stack' = <<Frame("transition", FirstPc)>>
    /\ startColor' = a /\ endColor' = b /\ effectSpeed' = s
    /\ EnterTransition
    /\ UNCHANGED <<buf, shown, shineSpeed, fadeSpeed, color, colorOrder, colors, repeat>>

\* for j in range(numPixels()): setLedColor(j, int(red + (i * (targetRed - red) / brightness)), ...)
TransitionWrite ==
  /\ At("transition", "frame") /\ j < NumPixels
  /\ buf' = setLedColor(buf, j, Lerp(startColor[1], endColor[1], i),
                        Lerp(startColor[2], endColor[2], i),
                        Lerp(startColor[3], endColor[3], i), 0)
  /\ j' = j + 1
  /\ UNCHANGED <<shown, ctl, args, i, t, rgb, packed, order>>

TransitionShow ==
  /\ At("transition", "frame") /\ j = NumPixels
  /\ shown' = buf
  /\ stack' = Goto(NextPc(effectSpeed))
  /\ i' = IF i + effectSpeed < brightness THEN i + effectSpeed ELSE i
  /\ j' = 0
  /\ UNCHANGED <<buf, outcome, cancelled, op, last, args, t, rgb, packed, order>>

\* ------------------------------------------------------------- transitionEffect

CallTransitionEffect ==
  \E cs \in ColorOrders, s \in LoopEffect :
    /\ Begin("transitionEffect")
    /\ outcome' = "none"
    /\ stack' = <<Frame("transitionEffect", "loop")>>
    /\ colors' = Values(cs) /\ effectSpeed' = s
    /\ t' = 0
    /\ UNCHANGED <<buf, shown, shineSpeed, fadeSpeed, color, startColor, endColor,
                   colorOrder, repeat, i, j, rgb, packed, order>>

\* transitionEffect always going back to colors[0]
TransitionEffectCallToFirst ==
  /\ At("transitionEffect", "loop")
  /\ stack' = CallFrom("next", "transition", FirstPc)
  /\ startColor' = colors[t + 1]
  /\ endColor' = colors[1]
  /\ EnterTransition
  /\ UNCHANGED <<buf, shown, outcome, cancelled, op, last, shineSpeed, fadeSpeed,
                 effectSpeed, color, colorOrder, colors, repeat>>

\* transition(colors[i], colors[0]) if i + 1 >= len(colors) else transition(colors[i], colors[i + 1])
TransitionEffectCall ==
  /\ At("transitionEffect", "loop")
  /\ stack' = CallFrom("next", "transition", FirstPc)
  /\ startColor' = colors[t + 1]
  /\ endColor' = IF t + 1 >= Len(colors) THEN colors[1] ELSE colors[t + 2]
  /\ EnterTransition
  /\ UNCHANGED <<buf, shown, outcome, cancelled, op, last, shineSpeed, fadeSpeed,
                 effectSpeed, color, colorOrder, colors, repeat>>

\* next i of range(len(colors)); when exhausted, while True starts the for again
TransitionEffectNext ==
  /\ At("transitionEffect", "next")
  /\ t' = IF t + 1 < Len(colors) THEN t + 1 ELSE 0
  /\ stack' = Goto("loop")
  /\ UNCHANGED <<buf, shown, outcome, cancelled, op, last, args, i, j, rgb, packed, order>>

\* ------------------------------------------------------------- turnOff

\* the while test of turnOff with "and" for "or"
AllPositive(c) == c[1] > 0 /\ c[2] > 0 /\ c[3] > 0

AnyPositive(c) == c[1] > 0 \/ c[2] > 0 \/ c[3] > 0
Fade(c, speed) == <<c[1] - speed, c[2] - speed, c[3] - speed>>

EnterTurnOff == i' = 0 /\ j' = 0 /\ rgb' = <<>> /\ packed' = 0 /\ UNCHANGED <<t, order>>

CallTurnOff ==
  \E s \in FadeSpeeds :
    /\ Begin("turnOff")
    /\ outcome' = "none"
    /\ stack' = <<Frame("turnOff", "start")>>
    /\ fadeSpeed' = s
    /\ EnterTurnOff
    /\ UNCHANGED <<buf, shown, shineSpeed, effectSpeed, color, startColor, endColor,
                   colorOrder, colors, repeat>>

\* color = getPixelColor(0); r, g, b = getRgbFromColor(color); first test of the
\* while, and the three subtractions when it is entered
TurnOffRead ==
  /\ At("turnOff", "start")
  /\ packed' = PackedColor(buf[0])
  /\ LET c == getRgbFromColor(PackedColor(buf[0]))
     IN  IF AnyPositive(c)
         THEN rgb' = Fade(c, fadeSpeed) /\ stack' = Goto("frame")
         ELSE rgb' = c /\ stack' = Goto("done")
  /\ UNCHANGED <<buf, shown, outcome, cancelled, op, last, args, i, j, t, order>>

\* turnOff's inner loop writing pixel 0 every time
TurnOffWriteFirst ==
  /\ At("turnOff", "frame") /\ j < NumPixels
  /\ buf' = setLedColor(buf, 0, rgb[1], rgb[2], rgb[3], 0)
  /\ j' = j + 1
  /\ UNCHANGED <<shown, ctl, args, i, t, rgb, packed, order>>

\* for i in range(numPixels()): setLedColor(i, r, g, b)
TurnOffWrite ==
  /\ At("turnOff", "frame") /\ j < NumPixels
  /\ buf' = setLedColor(buf, j, rgb[1], rgb[2], rgb[3], 0)
  /\ j' = j + 1
  /\ UNCHANGED <<shown, ctl, args, i, t, rgb, packed, order>>

\* strip.show(); time.sleep(); the while test and the next subtractions
TurnOffShow ==
  /\ At("turnOff", "frame") /\ j = NumPixels
  /\ shown' = buf
  /\ j' = 0
  /\ IF AnyPositive(rgb)
     THEN rgb' = Fade(rgb, fadeSpeed) /\ UNCHANGED stack
     ELSE UNCHANGED rgb /\ stack' = Goto("done")
  /\ UNCHANGED <<buf, outcome, cancelled, op, last, args, i, t, packed, order>>

\* ------------------------------------------------------------- colorLoop

CallColorLoop ==
  \E co \in ColorOrders, ss \in LoopShine, fs \in LoopFade, es \in LoopEffect :
    /\ Begin("colorLoop")
    /\ outcome' = "none"
    /\ stack' = <<Frame("colorLoop", "try")>>
    /\ colorOrder' = co /\ shineSpeed' = ss /\ fadeSpeed' = fs /\ effectSpeed' = es
    /\ UNCHANGED <<buf, shown, color, startColor, endColor, colors, repeat, locals>>

\* self.turnOn(colorOrder[0], shineSpeed)
ColorLoopTurnOn ==
  /\ At("colorLoop", "try")
  /\ stack' = CallFrom("liste", "turnOn", FirstPc)
  /\ color' = colorOrder[1]
  /\ EnterTurnOn
  /\ UNCHANGED <<buf, shown, outcome, cancelled, op, last, shineSpeed, fadeSpeed,
                 effectSpeed, startColor, endColor, colorOrder, colors, repeat>>

\* colorLoop handing transitionEffect the colors after the first
ColorLoopTransitionEffectRest ==
  /\ At("colorLoop", "liste")
  /\ stack' = CallFrom("done", "transitionEffect", "loop")
  /\ colors' = Values(Tail(colorOrder))
  /\ t' = 0
  /\ UNCHANGED <<buf, shown, outcome, cancelled, op, last, shineSpeed, fadeSpeed,
                 effectSpeed, color, startColor, endColor, colorOrder, repeat,
                 i, j, rgb, packed, order>>

\* liste = the values of colorOrder; self.transitionEffect(liste, effectSpeed)
ColorLoopTransitionEffect ==
  /\ At("colorLoop", "liste")
  /\ stack' = CallFrom("done", "transitionEffect", "loop")
  /\ colors' = Values(colorOrder)
  /\ t' = 0
  /\ UNCHANGED <<buf, shown, outcome, cancelled, op, last, shineSpeed, fadeSpeed,
                 effectSpeed, color, startColor, endColor, colorOrder, repeat,
                 i, j, rgb, packed, order>>

\* except KeyboardInterrupt: self.turnOff(fadeSpeed)
ColorLoopExcept ==
  /\ At("colorLoop", "except")
  /\ stack' = CallFrom("done", "turnOff", "start")
  /\ EnterTurnOff
  /\ UNCHANGED <<buf, shown, outcome, cancelled, op, last, args>>

\* ------------------------------------------------------------- breathe

CallBreathe ==
  \E c \in LoopColors, ss \in LoopShine, fs \in LoopFade :
    /\ Begin("breathe")
    /\ outcome' = "none"
    /\ stack' = <<Frame("breathe", "on")>>
    /\ color' = c /\ shineSpeed' = ss /\ fadeSpeed' = fs
    /\ UNCHANGED <<buf, shown, effectSpeed, startColor, endColor, colorOrder, colors,
                   repeat, locals>>

\* self.turnOn(color, shineSpeed)
BreatheTurnOn ==
  /\ At("breathe", "on")
  /\ stack' = CallFrom("off", "turnOn", FirstPc)
  /\ EnterTurnOn
  /\ UNCHANGED <<buf, shown, outcome, cancelled, op, last, args>>

\* breathe's loop calling turnOff again after turnOff
BreatheTurnOffAgain ==
  /\ At("breathe", "off")
  /\ stack' = CallFrom("off", "turnOff", "start")
  /\ EnterTurnOff
  /\ UNCHANGED <<buf, shown, outcome, cancelled, op, last, args>>

\* self.turnOff(fadeSpeed), then while True again
BreatheTurnOff ==
  /\ At("breathe", "off")
  /\ stack' = CallFrom("on", "turnOff", "start")
  /\ EnterTurnOff
  /\ UNCHANGED <<buf, shown, outcome, cancelled, op, last, args>>

\* except KeyboardInterrupt: self.turnOff(fadeSpeed)
BreatheExcept ==
  /\ At("breathe", "except")
  /\ stack' = CallFrom("done", "turnOff", "start")
  /\ EnterTurnOff
  /\ UNCHANGED <<buf, shown, outcome, cancelled, op, last, args>>

\* ------------------------------------------------------------- flow

CallFlow ==
  \E co \in ColorOrders, es \in LoopEffect :
    /\ Begin("flow")
    /\ outcome' = "none"
    /\ stack' = <<Frame("flow", "write")>>
    /\ colorOrder' = co /\ effectSpeed' = es
    /\ UNCHANGED <<buf, shown, shineSpeed, fadeSpeed, color, startColor, endColor,
                   colors, repeat, locals>>

\* flow writing the first color of colorOrder in every pass
FlowWriteFirstColor ==
  /\ At("flow", "write")
  /\ LET c == value(colorOrder[1])
     IN  buf' = setLedColor(buf, j, c[1], c[2], c[3], 0)
  /\ stack' = Goto("show")
  /\ UNCHANGED <<shown, outcome, cancelled, op, last, args, locals>>

\* r, g, b = color.value; self.setLedColor(j, r, g, b)
FlowWrite ==
  /\ At("flow", "write")
  /\ LET c == value(colorOrder[t + 1])
     IN  buf' = setLedColor(buf, j, c[1], c[2], c[3], 0)
  /\ stack' = Goto("show")
  /\ UNCHANGED <<shown, outcome, cancelled, op, last, args, locals>>

\* self.strip.show(); time.sleep(); next j, or the next color with j = 0
FlowShow ==
  /\ At("flow", "show")
  /\ shown' = buf
  /\ stack' = Goto("write")
  /\ IF j + 1 < NumPixels
     THEN j' = j + 1 /\ UNCHANGED t
     ELSE j' = 0 /\ t' = IF t + 1 < Len(colorOrder) THEN t + 1 ELSE 0
  /\ UNCHANGED <<buf, outcome, cancelled, op, last, args, i, rgb, packed, order>>

\* ------------------------------------------------------------- chase

CallChase ==
  \E co \in ColorOrders, rp \in 1 .. MaxRepeat, es \in LoopEffect :
    /\ Begin("chase")
    /\ outcome' = "none"
    /\ stack' = <<Frame("chase", "write")>>
    /\ colorOrder' = co /\ repeat' = rp /\ effectSpeed' = es
    /\ order' = Expand(co, rp)
    /\ UNCHANGED <<buf, shown, shineSpeed, fadeSpeed, color, startColor, endColor,
                   colors, i, j, t, rgb, packed>>

\* chase reading order[i % len(order)] in every write
ChaseWriteModLen ==
  /\ At("chase", "write")
  /\ LET c == order[(i % Len(order)) + 1]
     IN  buf' = setLedColor(buf, i, c[1], c[2], c[3], 0)
  /\ stack' = Goto("show")
  /\ UNCHANGED <<shown, outcome, cancelled, op, last, args, locals>>

\* r, g, b = order[i % (j+1)]; self.setLedColor(i, r, g, b)
ChaseWrite ==
  /\ At("chase", "write")
  /\ LET c == order[(i % (j + 1)) + 1]
     IN  buf' = setLedColor(buf, i, c[1], c[2], c[3], 0)
  /\ stack' = Goto("show")
  /\ UNCHANGED <<shown, outcome, cancelled, op, last, args, locals>>

\* self.strip.show(); next j, or the next i with j = 0, or the end of the sweep
ChaseShow ==
  /\ At("chase", "show")
  /\ shown' = buf
  /\ IF j + 1 < Len(order)
     THEN j' = j + 1 /\ UNCHANGED i /\ stack' = Goto("write")
     ELSE /\ j' = 0
          /\ IF i + 1 < NumPixels
             THEN i' = i + 1 /\ stack' = Goto("write")
             ELSE i' = 0 /\ stack' = Goto("rotate")
  /\ UNCHANGED <<buf, outcome, cancelled, op, last, args, t, rgb, packed, order>>

\* time.sleep(); if len(order) > 1: the rotation; then while True again
ChaseRotate ==
  /\ At("chase", "rotate")
  /\ order' = Rotate(order)
  /\ stack' = Goto("write")
  /\ UNCHANGED <<buf, shown, outcome, cancelled, op, last, args, i, j, t, rgb, packed>>

\* ------------------------------------------------------------- except blocks of flow and chase

\* the except block writing pixel 0 every time
ClearWriteFirst ==
  /\ (At("flow", "except") \/ At("chase", "except"))
  /\ buf' = setLedColor(buf, 0, 0, 0, 0, 0)
  /\ stack' = Goto("exshow")
  /\ UNCHANGED <<shown, outcome, cancelled, op, last, args, locals>>

\* for i in range(numPixels()): self.setLedColor(i, 0, 0, 0)
ClearWrite ==
  /\ (At("flow", "except") \/ At("chase", "except"))
  /\ buf' = setLedColor(buf, i, 0, 0, 0, 0)
  /\ stack' = Goto("exshow")
  /\ UNCHANGED <<shown, outcome, cancelled, op, last, args, locals>>

\* self.strip.show(); time.sleep(); next i
ClearShow ==
  /\ (At("flow", "exshow") \/ At("chase", "exshow"))
  /\ shown' = buf
  /\ i' = IF i + 1 < NumPixels THEN i + 1 ELSE i
  /\ stack' = Goto(IF i + 1 < NumPixels THEN "except" ELSE "done")
  /\ UNCHANGED <<buf, outcome, cancelled, op, last, args, j, t, rgb, packed, order>>

\* ------------------------------------------------------------- KeyboardInterrupt, return, setLedColor

\* the methods whose body is a try with an except KeyboardInterrupt
Handlers == {"colorLoop", "breathe", "flow", "chase"}

\* KeyboardInterrupt raised in the running code: it unwinds to the except block of
\* the outermost call when that call has one, and out of the call otherwise
\* (the locals of the unwound calls are gone).  One interrupt is delivered per
\* top-level call; an interrupt that is not caught ends the caller's program.
Cancel ==
  /\ Depth > 0 /\ ~cancelled
  /\ cancelled' = TRUE
  /\ NoLocals
  /\ IF stack[1].fn \in Handlers
     THEN /\ stack' = <<Frame(stack[1].fn, "except")>>
          /\ UNCHANGED <<outcome, args>>
     ELSE /\ stack' = <<>>
          /\ outcome' = "KeyboardInterrupt"
          /\ NoArgs
  /\ UNCHANGED <<buf, shown, op, last>>

\* the running call returns to its caller
Return ==
  /\ Depth > 0 /\ Top.pc = "done"
  /\ stack' = SubSeq(stack, 1, Depth - 1)
  /\ IF Depth = 1
     THEN outcome' = "returned" /\ NoArgs /\ NoLocals
     ELSE /\ i' = 0 /\ j' = 0 /\ rgb' = <<>> /\ packed' = 0
          /\ UNCHANGED <<outcome, args, t, order>>
  /\ UNCHANGED <<buf, shown, cancelled, op, last>>

\* a direct call setLedColor(n, red, green, blue, white) with arguments from S
SetLedColorCall(S) ==
  \E n \in Pixels, a \in S :
    /\ Begin("setLedColor")
    /\ buf' = setLedColor(buf, n, a[1], a[2], a[3], a[4])
    /\ outcome' = "returned"
    /\ UNCHANGED <<shown, stack, args, locals>>

CallSetLedColor == SetLedColorCall(SetArgs)

Next ==
  \/ CallTurnOn \/ TurnOnWrite \/ TurnOnShow
  \/ CallTransition \/ TransitionWrite \/ TransitionShow
  \/ CallTransitionEffect \/ TransitionEffectCall \/ TransitionEffectNext
  \/ CallTurnOff \/ TurnOffRead \/ TurnOffWrite \/ TurnOffShow
  \/ CallColorLoop \/ ColorLoopTurnOn \/ ColorLoopTransitionEffect \/ ColorLoopExcept
  \/ CallBreathe \/ BreatheTurnOn \/ BreatheTurnOff \/ BreatheExcept
  \/ CallFlow \/ FlowWrite \/ FlowShow
  \/ CallChase \/ ChaseWrite \/ ChaseShow \/ ChaseRotate
  \/ ClearWrite \/ ClearShow
  \/ Cancel \/ Return \/ CallSetLedColor

Spec == Init /\ [][Next]_vars

\* ------------------------------------------------------------- setLedColor alone

\* integers on both sides of the two checks of each channel
AnyInts == {-1, 0, 255, 256}
AnyArgs == AnyInts \X AnyInts \X AnyInts \X AnyInts

\* direct calls of setLedColor with arbitrary integer arguments
CallSetLedColorAny == SetLedColorCall(AnyArgs)

NextSet == CallSetLedColorAny

SpecSet == Init /\ [][NextSet]_vars

\* ------------------------------------------------------------- getRgbFromColor alone

Bytes == {0, 1, 127, 128, 254, 255}
\* white bytes whose packing stays below 2^31
WhiteBytes == {0, 1, 127}

\* packed colors: every combination of the bytes above
PackedInputs ==
  {PackedColor(<<r, g, b, w>>) : r \in Bytes, g \in Bytes, b \in Bytes, w \in WhiteBytes}

InitRgb ==
  /\ buf = [n \in Pixels |-> Black]
  /\ shown = [n \in Pixels |-> Black]
  /\ stack = <<>> /\ outcome = "none" /\ cancelled = FALSE
  /\ op = "getRgbFromColor" /\ last = "none"
  /\ shineSpeed = 0 /\ fadeSpeed = 0 /\ effectSpeed = 0
  /\ color = "" /\ startColor = <<>> /\ endColor = <<>>
  /\ colorOrder = <<>> /\ colors = <<>> /\ repeat = 0
  /\ i = 0 /\ j = 0 /\ t = 0 /\ rgb = <<>> /\ order = <<>>
  /\ packed \in PackedInputs

\* r, g, b = self.getRgbFromColor(color)
GetRgbFromColor ==
  /\ op = "getRgbFromColor" /\ outcome = "none"
  /\ rgb' = getRgbFromColor(packed)
  /\ outcome' = "returned"
  /\ UNCHANGED <<buf, shown, stack, cancelled, op, last, args, i, j, t, packed, order>>

NextRgb == GetRgbFromColor

SpecRgb == InitRgb /\ [][NextRgb]_vars

\* ------------------------------------------------------------- turnOff over any driver

\* what getPixelColor hands back when it is not an int (None, a float, a tuple):
\* a value that no packed color has
NotInt == -1

\* turnOff's read-back of pixel 0 that returns normally although the value is not
\* an int
TurnOffReadBackSwallowed ==
  \E c \in {PackedColor(buf[0]), NotInt} :
    IF c # NotInt
    THEN TurnOffRead
    ELSE /\ At("turnOff", "start")
         /\ packed' = c
         /\ stack' = Goto("done")
         /\ UNCHANGED <<buf, shown, outcome, cancelled, op, last, args, i, j, t, rgb, order>>

\* color = getPixelColor(0); if not isinstance(color, int): raise ValueError(...);
\* otherwise turnOff goes on as above.  The ValueError is no KeyboardInterrupt:
\* no except block of the callers catches it, it ends the caller's program.
TurnOffReadBack ==
  \E c \in {PackedColor(buf[0]), NotInt} :
    IF c # NotInt
    THEN TurnOffRead
    ELSE /\ At("turnOff", "start")
         /\ packed' = c
         /\ stack' = <<>> /\ outcome' = "ValueError"
         /\ NoArgs
         /\ i' = 0 /\ j' = 0 /\ t' = 0 /\ rgb' = <<>> /\ order' = <<>>
         /\ UNCHANGED <<buf, shown, cancelled, op, last>>

NextErr ==
  \/ CallTurnOn \/ TurnOnWrite \/ TurnOnShow
  \/ CallTransition \/ TransitionWrite \/ TransitionShow
  \/ CallTransitionEffect \/ TransitionEffectCall \/ TransitionEffectNext
  \/ CallTurnOff \/ TurnOffReadBack \/ TurnOffWrite \/ TurnOffShow
  \/ CallColorLoop \/ ColorLoopTurnOn \/ ColorLoopTransitionEffect \/ ColorLoopExcept
  \/ CallBreathe \/ BreatheTurnOn \/ BreatheTurnOff \/ BreatheExcept
  \/ CallFlow \/ FlowWrite \/ FlowShow
  \/ CallChase \/ ChaseWrite \/ ChaseShow \/ ChaseRotate
  \/ ClearWrite \/ ClearShow
  \/ Cancel \/ Return \/ CallSetLedColor

SpecErr == Init /\ [][NextErr]_vars

\* the program steps: everything but the caller's calls and the interrupt
Run ==
  \/ TurnOnWrite \/ TurnOnShow \/ TransitionWrite \/ TransitionShow
  \/ TransitionEffectCall \/ TransitionEffectNext
  \/ TurnOffRead \/ TurnOffWrite \/ TurnOffShow
  \/ ColorLoopTurnOn \/ ColorLoopTransitionEffect \/ ColorLoopExcept
  \/ BreatheTurnOn \/ BreatheTurnOff \/ BreatheExcept
  \/ FlowWrite \/ FlowShow \/ ChaseWrite \/ ChaseShow \/ ChaseRotate
  \/ ClearWrite \/ ClearShow \/ Return

\* the interpreter keeps executing a running call
FairSpec == Spec /\ WF_vars(Run)

\* ============================================================= claims

Finished == stack = <<>> /\ outcome = "returned"
Running(f) == Depth > 0 /\ Top.fn = f

\* C1 (as stated): colorLoop and breathe, once interrupted, never let the
\* KeyboardInterrupt out and end, returned, with every pixel (0,0,0,0) in the
\* buffer and on the hardware.
C1_InterruptEndsAllOff ==
  (op \in {"colorLoop", "breathe"} /\ cancelled)
    => /\ outcome # "KeyboardInterrupt"
       /\ stack = <<>> => (outcome = "returned" /\ AllOff(buf) /\ AllOff(shown))

\* flow and chase: no KeyboardInterrupt gets out, and the call is over only after
\* an interrupt, returned, with buffer and hardware all (0,0,0,0)
C2_Safe ==
  (op \in {"flow", "chase"})
    => /\ outcome # "KeyboardInterrupt"
       /\ stack = <<>> => (cancelled /\ outcome = "returned" /\ AllOff(buf) /\ AllOff(shown))

\* C2: flow and chase never let the KeyboardInterrupt out, and an interrupted
\* flow or chase ends, returned, with every pixel (0,0,0,0) in the buffer and
\* on the hardware, wherever the interrupt came; the interrupted call does return.
C2_FlowChaseInterruptClears ==
  /\ []C2_Safe
  /\ (op \in {"flow", "chase"} /\ cancelled) ~> Finished

\* the except block of flow or chase is clearing a strip that was lit mid-pass
C2_Witness ==
  /\ op \in {"flow", "chase"} /\ cancelled /\ Depth = 1 /\ Top.pc = "exshow"
  /\ i = 0 /\ buf[0] = Black /\ buf[1] # Black /\ ~AllOff(shown)

\* C3: turnOn run to completion and then turnOff run to completion leave every
\* pixel at (0,0,0,0).
C3_OnThenOffAllOff ==
  (op = "turnOff" /\ last = "turnOn" /\ Finished) => AllOff(buf)

\* turnOff, called after turnOn, is about to return having faded a lit strip
C3_Witness ==
  /\ op = "turnOff" /\ last = "turnOn" /\ At("turnOff", "done")
  /\ packed # 0 /\ AllOff(buf) /\ AllOff(shown)

InTransitionEffect == Depth > 0 /\ stack[1].fn = "transitionEffect"

\* the transition that runs under transitionEffect is the one from colors[t] to
\* the color after it, the first color coming after the last
C4_Order ==
  (Depth = 2 /\ stack[1].fn = "transitionEffect" /\ Top.fn = "transition")
    => /\ t \in 0 .. (Len(colors) - 1)
       /\ startColor = colors[t + 1]
       /\ endColor = colors[((t + 1) % Len(colors)) + 1]

C4_NeverReturns ==
  (op = "transitionEffect") => (outcome # "returned" /\ (Depth > 0 => stack[1].pc # "done"))

\* after a transition the index moves on by one, cyclically; an interrupt empties
\* the stack, is the caller's, and leaves buffer and hardware as they were
C4_Step ==
  /\ (InTransitionEffect /\ Depth = 1 /\ Top.pc = "next" /\ ~cancelled')
       => (t' = (t + 1) % Len(colors) /\ stack' = Goto("loop"))
  /\ (InTransitionEffect /\ cancelled' /\ ~cancelled)
       => (stack' = <<>> /\ outcome' = "KeyboardInterrupt" /\ buf' = buf /\ shown' = shown)

\* C4: transitionEffect calls transition(colors[k], colors[k+1]) for k = 0, 1, ...
\* with the last color followed by the first, cyclically, again and again; it never
\* returns; a KeyboardInterrupt leaves it at once, for the caller, with the buffer
\* as it was (the last-written intermediate color).
C4_TransitionEffectCycles ==
  /\ [](C4_Order /\ C4_NeverReturns)
  /\ [][C4_Step]_vars
  /\ At("transitionEffect", "loop") ~> (cancelled \/ At("transitionEffect", "next"))
  /\ At("transitionEffect", "next") ~> (cancelled \/ At("transitionEffect", "loop"))

\* transitionEffect was interrupted in the middle of a frame: the exception is out
\* and the buffer holds two different intermediate colors, not yet flushed
C4_Witness ==
  /\ op = "transitionEffect" /\ outcome = "KeyboardInterrupt" /\ stack = <<>>
  /\ buf[0] # buf[1] /\ buf[0] # Black /\ buf[1] # Black /\ shown # buf

\* C5 (as stated): every channel of every pixel of the buffer, white included, is
\* in [0,255] whatever integers setLedColor was called with.
C5_AllChannelsClamped ==
  \A n \in Pixels : \A ch \in 1 .. 4 : buf[n][ch] \in 0 .. 255

Max3(c) ==
  IF c[1] >= c[2] /\ c[1] >= c[3] THEN c[1] ELSE IF c[2] >= c[3] THEN c[2] ELSE c[3]
CeilDiv(a, b) == (a + b - 1) \div b
Floor0(x) == IF x > 0 THEN x ELSE 0
\* (r0, g0, b0): the three low bytes of the color turnOff read back
Read0 == << (packed \div 65536) % 256, (packed \div 256) % 256, packed % 256 >>
\* the number of the frame turnOff is in (or was last in)
FrameNo == (Read0[1] - rgb[1]) \div fadeSpeed

\* in frame k the counters are c0 - k*fadeSpeed, some channel was positive before
\* the frame, and the pixels written so far hold max(0, c0 - k*fadeSpeed), white 0
C6_Frame ==
  At("turnOff", "frame")
    => /\ FrameNo >= 1 /\ FrameNo <= CeilDiv(Max3(Read0), fadeSpeed)
       /\ \A ch \in 1 .. 3 : rgb[ch] = Read0[ch] - FrameNo * fadeSpeed
       /\ \A n \in 0 .. (j - 1) :
            buf[n] = << Floor0(Read0[1] - FrameNo * fadeSpeed),
                        Floor0(Read0[2] - FrameNo * fadeSpeed),
                        Floor0(Read0[3] - FrameNo * fadeSpeed), 0 >>

\* turnOff is through after exactly ceil(max(r0,g0,b0) / fadeSpeed) frames
C6_Done ==
  At("turnOff", "done")
    => /\ FrameNo = CeilDiv(Max3(Read0), fadeSpeed)
       /\ \A ch \in 1 .. 3 : rgb[ch] = Read0[ch] - FrameNo * fadeSpeed /\ rgb[ch] <= 0
       /\ FrameNo > 0 => (AllOff(buf) /\ AllOff(shown))

\* with pixel 0 black turnOff is through at once: no write, no flush
C6_BlackStep ==
  (At("turnOff", "start") /\ buf[0][1] = 0 /\ buf[0][2] = 0 /\ buf[0][3] = 0
     /\ cancelled' = cancelled)
    => (stack' = Goto("done") /\ buf' = buf /\ shown' = shown)

\* C6: turnOff, having read (r0,g0,b0) from pixel 0, writes max(0, c0 - k*fadeSpeed)
\* for each channel to every pixel in its k-th frame, while its counters go below
\* zero; it runs a frame whenever some channel was still positive, and is through
\* after ceil(max(r0,g0,b0) / fadeSpeed) frames; with pixel 0 black it writes and
\* flushes nothing.  It always gets through.
C6_TurnOffFrames ==
  /\ [](C6_Frame /\ C6_Done)
  /\ [][C6_BlackStep]_vars
  /\ Running("turnOff") ~> ~Running("turnOff")

\* turnOff is in a frame in which one channel is already below zero while another
\* is still positive
C6_Witness ==
  /\ At("turnOff", "frame") /\ j = 1 /\ FrameNo >= 2
  /\ rgb[1] < 0 /\ rgb[2] > 0 /\ buf[0][1] = 0 /\ buf[0][2] = rgb[2]

InChase(p) == At("chase", p) /\ ~cancelled

RotatedRight(o, o2) ==
  /\ Len(o2) = Len(o)
  /\ o2[1] = o[Len(o)]
  /\ \A k \in 2 .. Len(o) : o2[k] = o[k - 1]

Count(o, x) == Cardinality({k \in 1 .. Len(o) : o[k] = x})
SameBag(o, o2) == \A x \in Tuples : Count(o, x) = Count(o2, x)

RECURSIVE Rotations(_, _)
Rotations(o, n) == IF n = 0 THEN o ELSE Rotations(Rotate(o), n - 1)

\* each color of colorOrder, repeat times, in colorOrder order
Expanded ==
  [k \in 1 .. (Len(colorOrder) * repeat) |-> value(colorOrder[((k - 1) \div repeat) + 1])]

\* order is the expanded array rotated some number of times, and len(order)
\* further rotations give it back
C7_Order ==
  (Depth > 0 /\ Top.fn = "chase" /\ ~cancelled)
    => /\ \E n \in 0 .. (Len(Expanded) - 1) : order = Rotations(Expanded, n)
       /\ Rotations(order, Len(order)) = order

\* the step after a sweep rotates right by one; no other step changes order; a
\* sweep ends with the last order index of the last pixel and not before
C7_Step ==
  /\ (InChase("rotate") /\ ~cancelled')
       => /\ RotatedRight(order, order')
          /\ SameBag(order, order')
          /\ Len(order) = 1 => order' = order
  /\ (InChase("write") \/ InChase("show")) /\ ~cancelled' => order' = order
  /\ (InChase("show") /\ ~cancelled')
       => ((i = NumPixels - 1 /\ j = Len(order) - 1) <=> stack' = Goto("rotate"))

\* C7: chase's order starts as each color of colorOrder repeat times; after every
\* full sweep over the pixels, and at no other time, it is rotated right by one:
\* the old last element first, every other element one place up.  The rotation
\* keeps length and multiset, leaves a one-element order alone, and len(order)
\* rotations give the order back.
C7_ChaseRotatesRight ==
  /\ []C7_Order
  /\ [][C7_Step]_vars

\* chase sweeps with an order of three or more elements that has been rotated once
C7_Witness ==
  /\ InChase("write") /\ Len(order) >= 3
  /\ order # Expanded /\ order[1] # order[2]
  /\ RotatedRight(Expanded, order)

\* C8 (as stated): the last frame turnOn writes before it returns has step equal to
\* the configured brightness and shows the target color at scale 1.
C8_RampReachesBrightness ==
  At("turnOn", "done")
    => /\ i = brightness
       /\ \A n \in Pixels :
            buf[n] = <<value(color)[1], value(color)[2], value(color)[3], 0>>

Between(x, a, b) == (a <= x /\ x <= b) \/ (b <= x /\ x <= a)

\* the pixels written in the running frame: white 0; each of R, G, B between start
\* and end, equal to start + i*(end - start)/brightness rounded down (so no check
\* of setLedColor changed it), and equal to start in the first frame
C9_Frame ==
  At("transition", "frame")
    => /\ i >= 0 /\ i < brightness /\ i % effectSpeed = 0
       /\ \A n \in 0 .. (j - 1) :
            /\ buf[n][4] = 0
            /\ \A ch \in 1 .. 3 :
                 /\ Between(buf[n][ch], startColor[ch], endColor[ch])
                 /\ buf[n][ch] * brightness
                      <= startColor[ch] * brightness + i * (endColor[ch] - startColor[ch])
                 /\ buf[n][ch] * brightness
                      > startColor[ch] * brightness + i * (endColor[ch] - startColor[ch]) - brightness
                 /\ i = 0 => buf[n][ch] = startColor[ch]

\* a write after the first frame moves each channel toward its end value or
\* leaves it
C9_Step ==
  (At("transition", "frame") /\ j < NumPixels /\ j' = j + 1 /\ i > 0)
    => \A ch \in 1 .. 3 :
         /\ endColor[ch] > startColor[ch] => buf'[j][ch] >= buf[j][ch]
         /\ endColor[ch] < startColor[ch] => buf'[j][ch] <= buf[j][ch]
         /\ endColor[ch] = startColor[ch] => buf'[j][ch] = buf[j][ch]

\* C9: every frame of transition writes, per channel of R, G and B, a value between
\* the start and the end value that the checks of setLedColor leave as computed;
\* the first frame writes the start color; from frame to frame the value moves
\* toward the end value, never back; white is written as 0.  transition gets
\* through.
C9_TransitionInterpolates ==
  /\ []C9_Frame
  /\ [][C9_Step]_vars
  /\ Running("transition") ~> ~Running("transition")

\* transition is past its first frame on a channel that goes down and one that
\* goes up: the pixel just written is strictly between start and end
C9_Witness ==
  /\ At("transition", "frame") /\ i > 0 /\ j = 1
  /\ startColor[1] > endColor[1]
  /\ buf[0][1] < startColor[1] /\ buf[0][1] > endColor[1]
  /\ startColor[2] < endColor[2] /\ buf[0][2] > startColor[2]

\* C10: getRgbFromColor returns three values in [0,255] that are the bytes of
\* bits 16-23, 8-15 and 0-7 of its argument: from r<<16 | g<<8 | b it returns
\* (r, g, b), from 0xFF8000 (255, 128, 0), and what lies above bit 23 plays no part.
C10_DecomposesLow24Bits ==
  (op = "getRgbFromColor" /\ outcome = "returned")
    => /\ \A ch \in 1 .. 3 : rgb[ch] \in 0 .. 255
       /\ rgb[1] * 65536 + rgb[2] * 256 + rgb[3] = packed % 16777216
       /\ packed % 16777216 = 16744448 => rgb = <<255, 128, 0>>

\* 0xFF8000 with a white byte above it has been decomposed
C10_Witness ==
  /\ op = "getRgbFromColor" /\ outcome = "returned"
  /\ packed = 16777216 + 16744448 /\ rgb = <<255, 128, 0>>

\* the three operations that render one frame per flush
FrameOps == {"turnOn", "transition", "turnOff"}
InFrame == Depth > 0 /\ Top.fn \in FrameOps /\ Top.pc = "frame"

\* within a frame the pixels 0 .. j-1 have been written, all with one value
C11_Frame ==
  InFrame => /\ j \in 0 .. NumPixels
             /\ \A n \in 0 .. (j - 1) : buf[n] = buf[0]

\* a step of a frame that is not an interrupt: while pixels are left it writes
\* pixel j, only that one, and flushes nothing; when none is left it flushes the
\* buffer, all pixels equal, writes nothing and the next frame starts at pixel 0;
\* outside the frames these operations neither write nor flush
C11_Step ==
  /\ (InFrame /\ j < NumPixels /\ cancelled' = cancelled)
       => /\ j' = j + 1 /\ stack' = stack /\ shown' = shown
          /\ \A n \in Pixels \ {j} : buf'[n] = buf[n]
  /\ (InFrame /\ j = NumPixels /\ cancelled' = cancelled)
       => /\ shown' = buf /\ buf' = buf /\ j' = 0
          /\ \A n \in Pixels : buf[n] = buf[0]
  /\ (Depth > 0 /\ Top.fn \in FrameOps /\ Top.pc # "frame")
       => (buf' = buf /\ shown' = shown)

\* C11: in turnOn, transition and turnOff the writes of a frame, one per pixel in
\* increasing index order, all come after the flush of the frame before and before
\* the flush of their own frame, so frames never interleave, and at every flush of
\* these operations all pixels hold the same RGBW value.
C11_FramesDoNotInterleave ==
  /\ []C11_Frame
  /\ [][C11_Step]_vars

\* a frame after the first is written out and about to be flushed over a
\* different, lit frame
C11_Witness ==
  /\ InFrame /\ j = NumPixels /\ buf[0] = buf[NumPixels - 1]
  /\ shown # buf /\ ~AllOff(shown) /\ shown[0] = shown[NumPixels - 1]

InFlow(p) == At("flow", p) /\ ~cancelled
\* the color of the running pass of flow, and of the pass before it in the list
FlowColor == <<value(colorOrder[t + 1])[1], value(colorOrder[t + 1])[2],
               value(colorOrder[t + 1])[3], 0>>
FlowColorBefore == <<value(colorOrder[t])[1], value(colorOrder[t])[2],
                     value(colorOrder[t])[3], 0>>
\* the last pixel the running pass has written (-1: none yet)
FlowWritten == IF Top.pc = "show" THEN j ELSE j - 1

\* in a pass the pixels written so far hold the color of the pass; in the pass of
\* a color that is not the first of the list, the pixels not yet written hold the
\* color before it, and every write made so far has been flushed
C12_Pass ==
  (InFlow("write") \/ InFlow("show"))
    => /\ t \in 0 .. (Len(colorOrder) - 1) /\ j \in Pixels
       /\ \A n \in 0 .. FlowWritten : buf[n] = FlowColor
       /\ t >= 1 => \A n \in (FlowWritten + 1) .. (NumPixels - 1) : buf[n] = FlowColorBefore
       /\ (Top.pc = "write" /\ (t >= 1 \/ j >= 1)) => shown = buf

\* a write of flow sets pixel j, and only pixel j, to the color of the pass and is
\* followed by a flush; the flush is followed by the write of the next pixel or,
\* after the last pixel, with every pixel holding the color of the pass, by the
\* pass of the next color, the first color coming after the last
C12_Step ==
  /\ (InFlow("write") /\ ~cancelled')
       => /\ buf' = [buf EXCEPT ![j] = FlowColor]
          /\ shown' = shown /\ stack' = Goto("show") /\ j' = j /\ t' = t
  /\ (InFlow("show") /\ ~cancelled')
       => /\ shown' = buf /\ buf' = buf /\ stack' = Goto("write")
          /\ IF j < NumPixels - 1
             THEN j' = j + 1 /\ t' = t
             ELSE /\ j' = 0 /\ t' = (t + 1) % Len(colorOrder)
                  /\ \A n \in Pixels : buf[n] = FlowColor

\* C12: flow, until it is interrupted, takes the colors in colorOrder order, the
\* first after the last; in a pass it writes the pixels in index order with one
\* flush after every single write; at the flush after the write of pixel j the
\* pixels 0 .. j hold the color of the pass and the pixels after j hold what they
\* held before the pass: the color before in the cycle, or what the buffer held
\* when flow was called.
C12_FlowFlushesEveryWrite ==
  /\ []C12_Pass
  /\ [][C12_Step]_vars

\* flow is about to flush the first pixel of its second color: pixel 0 has the new
\* color, the last pixel still the color before
C12_Witness ==
  /\ InFlow("show") /\ t = 1 /\ j = 0
  /\ buf[0] = FlowColor /\ buf[NumPixels - 1] = FlowColorBefore /\ FlowColor # FlowColorBefore
  /\ shown[0] = FlowColorBefore

\* order[k] of chase as setLedColor stores it
ChaseColor(k) == <<order[k + 1][1], order[k + 1][2], order[k + 1][3], 0>>

\* during a sweep: the index read from order is inside order; the pixel being
\* written holds order[i mod (j+1)] once written; the pixels before it hold
\* order[n mod len(order)]; after the sweep every pixel does
C13_Sweep ==
  /\ (InChase("write") \/ InChase("show"))
       => /\ order # <<>> /\ i \in Pixels /\ j \in 0 .. (Len(order) - 1)
          /\ (i % (j + 1)) \in 0 .. (Len(order) - 1)
          /\ Top.pc = "show" => buf[i] = ChaseColor(i % (j + 1))
          /\ (Top.pc = "write" /\ j >= 1) => buf[i] = ChaseColor(i % j)
          /\ \A n \in 0 .. (i - 1) : buf[n] = ChaseColor(n % Len(order))
  /\ InChase("rotate")
       => \A n \in Pixels : buf[n] = ChaseColor(n % Len(order))

\* a write of chase sets pixel i, and only pixel i, and is followed by a flush; the
\* flush is followed by the write of the same pixel with the next j, len(order)
\* writes in all, then by the first write of the next pixel
C13_Step ==
  /\ (InChase("write") /\ ~cancelled')
       => /\ buf' = [buf EXCEPT ![i] = ChaseColor(i % (j + 1))]
          /\ shown' = shown /\ stack' = Goto("show") /\ i' = i /\ j' = j
  /\ (InChase("show") /\ ~cancelled')
       => /\ shown' = buf /\ buf' = buf
          /\ j < Len(order) - 1 => (i' = i /\ j' = j + 1 /\ stack' = Goto("write"))
          /\ j = Len(order) - 1 => j' = 0

\* C13: in chase the index i mod (j+1) read from order is always inside order;
\* pixel i is written and flushed len(order) times per sweep, with
\* order[i mod (j+1)] for j = 0, 1, ..., so that at the end of the sweep pixel i
\* holds order[i mod len(order)] of the order of that sweep, not yet rotated.
C13_ChaseIndexInOrder ==
  /\ []C13_Sweep
  /\ [][C13_Step]_vars

\* a sweep is over with an order of several colors: the last pixel holds another
\* color than pixel 0, the one at its index modulo len(order)
C13_Witness ==
  /\ InChase("rotate") /\ Len(order) >= 2
  /\ buf[NumPixels - 1] # buf[0]
  /\ buf[NumPixels - 1] = ChaseColor((NumPixels - 1) % Len(order))

InBreathe == Depth > 0 /\ stack[1].fn = "breathe"
\* a call made by breathe is running
UnderBreathe(f) == Depth = 2 /\ stack[1].fn = "breathe" /\ Top.fn = f
\* the frame turnOn writes at step k
TurnOnFrame(k) ==
  <<Scale(value(color)[1], k), Scale(value(color)[2], k), Scale(value(color)[3], k), 0>>

\* breathe is over only after an interrupt; what runs under it is turnOn, to be
\* followed by turnOff, or turnOff, to be followed by turnOn, or after the
\* interrupt the turnOff of the except block; a turnOn that is through has made
\* its last frame, a turnOff of the loop that is through has left every pixel
\* (0,0,0,0), written and flushed
C14_Shape ==
  /\ (op = "breathe" /\ stack = <<>>) => (cancelled /\ outcome = "returned")
  /\ InBreathe
       => /\ op = "breathe" /\ Depth <= 2
          /\ stack[1].pc \in {"on", "off", "except", "done"}
          /\ cancelled <=> stack[1].pc \in {"except", "done"}
          /\ Depth = 2 => /\ stack[1].pc \in {"on", "off", "done"}
                          /\ stack[1].pc = "off" <=> Top.fn = "turnOn"
                          /\ stack[1].pc \in {"on", "done"} <=> Top.fn = "turnOff"
  /\ (UnderBreathe("turnOn") /\ Top.pc = "done")
       => /\ i + shineSpeed >= brightness /\ shown = buf
          /\ \A n \in Pixels : buf[n] = TurnOnFrame(i)
  /\ (UnderBreathe("turnOff") /\ Top.pc = "done" /\ ~cancelled)
       => (AllOff(buf) /\ AllOff(shown))

\* breathe starts with turnOn; a call it made ends by returning, at its end and
\* not before, unless interrupted; after turnOn it calls turnOff, after turnOff
\* turnOn; interrupted it calls turnOff once and returns when that has returned
C14_Step ==
  /\ (stack = <<>> /\ stack' # <<>> /\ op' = "breathe")
       => stack' = <<Frame("breathe", "on")>>
  /\ (At("breathe", "on") /\ ~cancelled')
       => stack' = <<Frame("breathe", "off"), Frame("turnOn", FirstPc)>>
  /\ (At("breathe", "off") /\ ~cancelled')
       => stack' = <<Frame("breathe", "on"), Frame("turnOff", "start")>>
  /\ (Depth = 2 /\ InBreathe /\ Depth' # 2 /\ cancelled' = cancelled)
       => (Top.pc = "done" /\ stack' = <<stack[1]>>)
  /\ (InBreathe /\ cancelled' /\ ~cancelled)
       => (stack' = <<Frame("breathe", "except")>> /\ buf' = buf /\ shown' = shown)
  /\ At("breathe", "except")
       => stack' = <<Frame("breathe", "done"), Frame("turnOff", "start")>>
  /\ At("breathe", "done")
       => (stack' = <<>> /\ outcome' = "returned")

\* C14: breathe returns only when interrupted; until then it runs turnOn and
\* turnOff in turn, each to its end, turnOn first: turnOff starts when turnOn has
\* made its last frame, and a turnOff that is through has left every pixel
\* (0,0,0,0) when the next turnOn starts.  Interrupted, it runs turnOff once more
\* and returns.
C14_BreatheAlternates ==
  /\ []C14_Shape
  /\ [][C14_Step]_vars
  /\ At("breathe", "on") ~> (cancelled \/ At("breathe", "off"))
  /\ At("breathe", "off") ~> (cancelled \/ At("breathe", "on"))
  /\ (op = "breathe" /\ cancelled) ~> (stack = <<>> /\ outcome = "returned")

\* a turnOff of breathe's loop is through after fading a lit strip, and turnOn
\* comes next
C14_Witness ==
  /\ UnderBreathe("turnOff") /\ Top.pc = "done" /\ stack[1].pc = "on" /\ ~cancelled
  /\ packed # 0 /\ AllOff(buf) /\ AllOff(shown)

InColorLoop == Depth > 0 /\ stack[1].fn = "colorLoop"
\* f is the call colorLoop has made
UnderColorLoop(f) == Depth >= 2 /\ stack[1].fn = "colorLoop" /\ stack[2].fn = f

\* C15 (as stated): the list colorLoop has transitionEffect run over is colorOrder
\* without its first color.
C15_TransitionEffectOverRest ==
  UnderColorLoop("transitionEffect")
    => colors = [k \in 1 .. (Len(colorOrder) - 1) |-> value(colorOrder[k + 1])]

\* colorLoop is over only after an interrupt; the calls it makes are turnOn with
\* the first color, transitionEffect over the values of all of colorOrder, whose
\* transitions go from each color to the one after it, and, only after an
\* interrupt, turnOff; a turnOn that is through has made its last frame
C15_Shape ==
  /\ (op = "colorLoop" /\ stack = <<>>) => (cancelled /\ outcome = "returned")
  /\ InColorLoop
       => /\ op = "colorLoop" /\ Depth <= 3
          /\ stack[1].pc \in {"try", "liste", "except", "done"}
          /\ Depth = 1 => (cancelled <=> stack[1].pc \in {"except", "done"})
          /\ Depth >= 2 => /\ stack[2].fn \in {"turnOn", "transitionEffect", "turnOff"}
                           /\ stack[2].fn = "turnOn" <=> stack[1].pc = "liste"
                           /\ stack[2].fn # "turnOn" <=> stack[1].pc = "done"
                           /\ stack[2].fn = "turnOff" <=> cancelled
  /\ UnderColorLoop("turnOn")
       => /\ Depth = 2 /\ color = colorOrder[1]
          /\ Top.pc = "done"
               => /\ i + shineSpeed >= brightness /\ shown = buf
                  /\ \A n \in Pixels : buf[n] = TurnOnFrame(i)
  /\ UnderColorLoop("transitionEffect")
       => /\ colors = [k \in 1 .. Len(colorOrder) |-> value(colorOrder[k])]
          /\ stack[2].pc # "done"
          /\ Depth = 3
               => /\ Top.fn = "transition"
                  /\ startColor = colors[t + 1]
                  /\ endColor = colors[((t + 1) % Len(colors)) + 1]
  /\ UnderColorLoop("turnOff") => Depth = 2

\* colorLoop starts with turnOn; turnOn ends by returning, at its end and not
\* before, unless interrupted, and transitionEffect follows; transitionEffect does
\* not end unless interrupted; interrupted, colorLoop calls turnOff and returns
\* when that has returned
C15_Step ==
  /\ (stack = <<>> /\ stack' # <<>> /\ op' = "colorLoop")
       => stack' = <<Frame("colorLoop", "try")>>
  /\ (At("colorLoop", "try") /\ ~cancelled')
       => stack' = <<Frame("colorLoop", "liste"), Frame("turnOn", FirstPc)>>
  /\ (UnderColorLoop("turnOn") /\ Depth' # 2 /\ ~cancelled')
       => (Top.pc = "done" /\ stack' = <<stack[1]>>)
  /\ (At("colorLoop", "liste") /\ ~cancelled')
       => stack' = <<Frame("colorLoop", "done"), Frame("transitionEffect", "loop")>>
  /\ (UnderColorLoop("transitionEffect") /\ ~cancelled')
       => (Depth' >= 2 /\ stack'[2].fn = "transitionEffect")
  /\ (InColorLoop /\ cancelled' /\ ~cancelled)
       => (stack' = <<Frame("colorLoop", "except")>> /\ buf' = buf /\ shown' = shown)
  /\ At("colorLoop", "except")
       => stack' = <<Frame("colorLoop", "done"), Frame("turnOff", "start")>>
  /\ (UnderColorLoop("turnOff") /\ Depth' # 2)
       => (Top.pc = "done" /\ stack' = <<stack[1]>>)
  /\ At("colorLoop", "done")
       => (stack' = <<>> /\ outcome' = "returned")

\* C15 (amended): colorLoop first runs turnOn to its end with the first color of
\* colorOrder, then runs transitionEffect over all of colorOrder, the first color
\* included; it returns only when interrupted; turnOff runs only after an
\* interrupt, once, and when it has returned colorLoop returns.
C15_ColorLoopComposes ==
  /\ []C15_Shape
  /\ [][C15_Step]_vars
  /\ At("colorLoop", "try") ~> (cancelled \/ At("colorLoop", "liste"))
  /\ At("colorLoop", "liste") ~> (cancelled \/ UnderColorLoop("transitionEffect"))
  /\ (op = "colorLoop" /\ cancelled) ~> (stack = <<>> /\ outcome = "returned")

\* under colorLoop, after turnOn lit the strip, transitionEffect runs the
\* transition that starts from the first color of colorOrder toward the second
C15_Witness ==
  /\ UnderColorLoop("transitionEffect") /\ Depth = 3 /\ ~cancelled
  /\ Len(colorOrder) >= 2 /\ colorOrder[1] # colorOrder[2]
  /\ t = 0 /\ startColor = value(colorOrder[1]) /\ endColor = value(colorOrder[2])
  /\ Top.pc = "frame" /\ i > 0 /\ j = 1 /\ ~AllOff(shown)

\* the ValueError is out exactly when the value read back was not an int, the
\* call is over then, and turnOff goes on only with an int
C16_Raised ==
  /\ outcome = "ValueError" <=> packed = NotInt
  /\ outcome = "ValueError"
       => (stack = <<>> /\ op \in {"turnOff", "breathe", "colorLoop"})
  /\ (Depth > 0 /\ Top.fn = "turnOff" /\ Top.pc # "start") => packed >= 0

\* the read-back that is not an int ends turnOff and all its callers at the first
\* step of turnOff, with buffer and hardware as they were; nothing comes after it
C16_Step ==
  /\ (packed' = NotInt /\ packed # NotInt)
       => /\ At("turnOff", "start") /\ stack' = <<>> /\ outcome' = "ValueError"
          /\ buf' = buf /\ shown' = shown
  /\ outcome = "ValueError"
       => (outcome' = outcome /\ stack' = <<>> /\ buf' = buf /\ shown' = shown)

\* C16: when what is read back from pixel 0 is not an int, turnOff raises its
\* ValueError before it writes a pixel or flushes, the buffer as it was; the error
\* goes to the caller and nothing recovers from it, also under breathe and in the
\* except blocks of colorLoop and breathe: the effect ends with the error and the
\* strip is not cleared.
C16_NonIntReadBackRaises ==
  /\ []C16_Raised
  /\ [][C16_Step]_vars

\* the turnOff of breathe's except block has raised: the error is out and the
\* strip is still lit
C16_Witness ==
  /\ op = "breathe" /\ cancelled /\ outcome = "ValueError" /\ stack = <<>>
  /\ ~AllOff(buf) /\ ~AllOff(shown)

\* the step changes no pixel but n, keeps the pixel count and flushes nothing
OnlyPixel(n) ==
  /\ DOMAIN buf' = Pixels
  /\ \A m \in Pixels \ {n} : buf'[m] = buf[m]
  /\ shown' = shown

\* every step is a flush or changes at most one pixel; a call of setLedColor by the
\* caller, and every setLedColor an effect calls, changes pixel n only
C17_Step ==
  /\ DOMAIN buf' = Pixels
  /\ buf' # buf => \E n \in Pixels : OnlyPixel(n)
  /\ (stack = <<>> /\ stack' = <<>>)
       => (op' = "setLedColor" /\ outcome' = "returned" /\ \E n \in Pixels : OnlyPixel(n))
  /\ (InFrame /\ j < NumPixels /\ cancelled' = cancelled) => OnlyPixel(j)
  /\ (InFlow("write") /\ ~cancelled') => OnlyPixel(j)
  /\ (InChase("write") /\ ~cancelled') => OnlyPixel(i)
  /\ (At("flow", "except") \/ At("chase", "except")) => OnlyPixel(i)

\* C17: a call setLedColor(n, r, g, b, w) changes the buffer entry of pixel n and
\* no other, leaves the pixel count as it is and requests no flush: the hardware
\* shows after the call what the last flush before it showed.
C17_SetLedColorOnlyPixelN ==
  /\ [](DOMAIN buf = Pixels /\ DOMAIN shown = Pixels)
  /\ [][C17_Step]_vars

\* setLedColor has just written pixel 0 of a lit, flushed strip: the buffer
\* differs from the hardware in pixel 0 and nowhere else
C17_Witness ==
  /\ At("flow", "show") /\ j = 0 /\ ~AllOff(shown)
  /\ buf[0] # shown[0] /\ buf[0] # Black
  /\ \A m \in Pixels \ {0} : buf[m] = shown[m]

====
